---- MODULE Spec2Model ----
(***************************************************************************)
(* Dual-endpoint stream-lifecycle orchestration: the orchestrator          *)
(* (IntegratedLiveController / StreamService), the encoder status monitor  *)
(* (StreamController) and the remote broadcast state machine               *)
(* (YouTubeLiveController), driven by main().                              *)
(*                                                                         *)
(* The main thread is one flow of control whose position is pc; the        *)
(* encoder's event listener runs as a second thread (OnStreamStatus).      *)
(* The encoder and the platform are environments: their answers are drawn  *)
(* with \E from what they can answer in their current state.               *)
(***************************************************************************)
EXTENDS Integers, Sequences, FiniteSets, TLC

\* ------------------------------------------------------------------ bounds

\* how many times the driver of SpecPromote calls start_broadcast in a row
MaxPromoteCalls == 2

\* how many times the caller of SpecReentry calls start_integrated_stream
MaxStartCalls == 2

\* how many threading.Timer objects the overlay refresh of SpecTimer creates
MaxTimers == 3

\* ------------------------------------------------------- program constants

\* for i in range(3): the auto-promotion polling window of start_broadcast
PromotePolls == 3

\* ---------------------------------------------------------------- values

NoId == "none"
BroadcastId == "b1"

\* the id the platform gives to a broadcast it creates: never one it gave before
FreshId(cur) == IF cur = NoId THEN BroadcastId ELSE "b2"

\* what create_stream returned: the destination the encoder must push to
IntendedServer == "rtmp_yt"
IntendedKey == "key_yt"

\* the destinations the encoder can be configured with: the intended one, one
\* that differs in the server only, one that differs in the key only
Dests ==
  { [server |-> "rtmp_yt", key |-> "key_yt"],
    [server |-> "rtmp_other", key |-> "key_yt"],
    [server |-> "rtmp_yt", key |-> "key_other"] }

IntendedDest == [server |-> IntendedServer, key |-> IntendedKey]

Bool(b) == IF b THEN "T" ELSE "F"

\* --------------------------------------------------- encoder status monitor

\* The answers GetStreamStatus can give when the output is `active`: an object
\* with output_active, a dict with outputActive, a response with neither, or an
\* error.  Once the request client is disconnected every request errors.
PollResps(connected, active) ==
  IF connected
    THEN { IF active THEN "attr_true" ELSE "attr_false",
           IF active THEN "dict_true" ELSE "dict_false",
           "unparsed", "error" }
    ELSE { "error" }

IsStreaming_UnreadableIsActive(resp) == resp \notin { "attr_false", "dict_false" }

\* is_streaming(): the value of the activity field when the response has one;
\* False for a response without it (the string probe compares a lowercased
\* string with "output_active: True" and never matches) and for an error.
IsStreaming(resp) ==
  CASE resp = "attr_true" -> TRUE
    [] resp = "attr_false" -> FALSE
    [] resp = "dict_true" -> TRUE
    [] resp = "dict_false" -> FALSE
    [] resp = "unparsed" -> FALSE
    [] OTHER -> FALSE

\* is_streaming() found no activity field in the response, or the request
\* raised: the paths of is_streaming that end in its two last `return False`
PollFailed(resp) == resp \in { "unparsed", "error" }

\* Event categories delivered to the listener and the payload shapes.
EventCats == { "StreamStarted", "OutputStateChanged", "StreamOutputActive",
               "SceneChanged" }

EventPayloads == { "active_true", "active_false", "active_nonbool",
                   "state_started", "state_stopped", "nofield", "unreadable" }

\* 'StreamStarted' in t or 'OutputStateChanged' in t or 'OutputActive' in t
CategoryMatches(cat) ==
  cat \in { "StreamStarted", "OutputStateChanged", "StreamOutputActive" }

\* output_active as _on_stream_status computes it (truthiness of outputActive,
\* or outputState == 'OBS_WEBSOCKET_OUTPUT_STARTED'); an unreadable payload
\* raises inside the handler and is swallowed.
PayloadActive(payload) ==
  CASE payload = "active_true" -> TRUE
    [] payload = "active_nonbool" -> TRUE
    [] payload = "state_started" -> TRUE
    [] OTHER -> FALSE

OnStreamStatusLatch_FollowsEvent(latch0, cat, payload) ==
  IF CategoryMatches(cat) THEN PayloadActive(payload) ELSE latch0

\* _on_stream_status: the latch after the callback ran on one event
OnStreamStatusLatch(latch0, cat, payload) ==
  IF CategoryMatches(cat) /\ PayloadActive(payload) THEN TRUE ELSE latch0

\* ------------------------------------------------- endpoint configuration

\* A response of GetStreamServiceSettings: kind "error" (the request raised),
\* "nosettings" (no streamServiceSettings attribute) or "settings"; typ is the
\* streamServiceType attribute ("notype" when the response has none).
Resp(k, t, s, y) == [kind |-> k, typ |-> t, server |-> s, key |-> y]

Unread == Resp("unread", "-", "-", "-")

\* What GetStreamServiceSettings can answer when the encoder's destination is d
SettingsReads(d) ==
  { Resp("error", "-", "-", "-") } \cup
  { Resp("nosettings", t, "-", "-") : t \in { "rtmp_custom", "rtmp_common", "notype" } } \cup
  { Resp("settings", t, d.server, d.key) : t \in { "rtmp_custom", "rtmp_common", "notype" } }

\* current_server == rtmp_url and current_key == stream_key
Matches(r) ==
  r.kind = "settings" /\ r.server = IntendedServer /\ r.key = IntendedKey

\* answers to SetStreamServiceSettings: a response, a response with
\* status == 'error', or an exception
SetOutcomes == { "ok", "status_error", "raise" }

CfgResult(r, c, q, v, m) ==
  [ret |-> r, configured |-> c, reqs |-> q, ver |-> v, man |-> m]

\* configure_obs_for_youtube, encoder reported active: no write; the current
\* destination is read and compared when the response carries it.  A message
\* that shows the stream key is recorded as "print.key_full" (the whole key) or
\* "print.key_prefix" (stream_key[:5]).
CfgWhileStreaming(cur) ==
  LET q == << "obs.GetStreamStatus", "obs.GetStreamServiceSettings" >> IN
  IF cur.kind = "settings"
    THEN IF Matches(cur)
           THEN CfgResult(TRUE, TRUE, q, Unread, Unread)
           ELSE CfgResult(FALSE, FALSE,
                          q \o << "print.key_prefix", "print.key_full", "input" >>,
                          Unread, Unread)
    ELSE CfgResult(TRUE, TRUE, q, Unread, Unread)

\* setting_success after the read-back of the write (lines 189-224)
VerifyOk(ver) ==
  /\ ver.kind # "error"
  /\ ver.typ \in { "rtmp_custom", "notype" }
  /\ ver.kind = "settings" => (ver.server = IntendedServer /\ ver.key = IntendedKey)

\* the manual path (lines 227-258): prompt, read again, compare
CfgManual(q, ver, man) ==
  LET q2 == q \o << "print.key_full", "input", "obs.GetStreamServiceSettings" >> IN
  IF Matches(man)
    THEN CfgResult(TRUE, TRUE, q2, ver, man)
    ELSE CfgResult(FALSE, Matches(ver), q2, ver, man)

\* configure_obs_for_youtube, encoder reported inactive: write, read back,
\* compare; on failure prompt the operator and read again.
CfgWrite(setOut, ver, man) ==
  LET q == << "obs.GetStreamStatus", "obs.GetStreamServiceSettings",
              "obs.SetStreamServiceSettings" >> IN
  IF setOut = "ok"
    THEN LET q1 == q \o << "obs.GetStreamServiceSettings" >> IN
         IF VerifyOk(ver)
           THEN CfgResult(TRUE, Matches(ver), q1, ver, Unread)
           ELSE CfgManual(q1, ver, man)
    ELSE CfgManual(q, Unread, man)

ConfigureIntegrated_WriteWhileActive(act, cur, setOut, ver, man) ==
  CfgWrite(setOut, ver, man)

\* IntegratedLiveController.configure_obs_for_youtube
ConfigureIntegrated(act, cur, setOut, ver, man) ==
  IF act THEN CfgWhileStreaming(cur) ELSE CfgWrite(setOut, ver, man)

\* StreamService.configure_obs_for_youtube: no read of the destination at all;
\* a write that raises prompts the operator and fails.
ConfigureService(act, cur, setOut, ver, man) ==
  IF act
    THEN CfgResult(TRUE, TRUE, << "obs.GetStreamStatus" >>, Unread, Unread)
    ELSE IF setOut = "raise"
           THEN CfgResult(FALSE, FALSE,
                          << "obs.GetStreamStatus", "obs.SetStreamServiceSettings",
                             "print.key_full", "input" >>, Unread, Unread)
           ELSE CfgResult(TRUE, TRUE,
                          << "obs.GetStreamStatus", "obs.SetStreamServiceSettings" >>,
                          Unread, Unread)

Configure(v, act, cur, setOut, ver, man) ==
  IF v = "Integrated"
    THEN ConfigureIntegrated(act, cur, setOut, ver, man)
    ELSE ConfigureService(act, cur, setOut, ver, man)

InSeq(x, q) == \E i \in DOMAIN q : q[i] = x

\* -------------------------------------------------------------------- state

VARIABLES
  variant,            \* "Integrated" (integrated_controller.py) or "Service" (stream_service.py)
  hasYt,              \* self.youtube_controller is set (False: --skip-youtube)
  pc,                 \* position of the main thread
  interrupted,        \* main() is in its KeyboardInterrupt handler
  broadcast_id,       \* self.broadcast_id
  stream_key,         \* self.stream_key
  is_obs_configured,  \* self.is_obs_configured
  latch,              \* StreamController.streaming_event
  connected,          \* the request client is connected (until obs_connection.disconnect())
  obsActive,          \* the encoder is pushing its output
  obsDest,            \* the encoder's output destination
  ytState,            \* the platform's lifeCycleStatus of the broadcast
  cfg,                \* configure_obs_for_youtube: its answers and result, until start goes on
  sb,                 \* start_broadcast: its locals
  sbRet,              \* where start_broadcast returns to
  success,            \* stop_integrated_stream: its local `success`
  startRet,           \* result of start_integrated_stream: "none", "T", "F"
  waitRet,            \* result of wait_for_stream_start
  sbResult,           \* result of start_broadcast
  stopRet,            \* result of the last stop_integrated_stream
  log,                \* calls, returns and state-changing requests of the current
                      \* start_integrated_stream / stop_integrated_stream, in order
  evid,               \* activity was observed since this session's start was called
  encoderStarted,     \* a StartStream request was sent by start_streaming
  hist,               \* SpecPromote: one record per finished start_broadcast call
  date_update_timer,  \* self.date_update_timer: a timer, or NoTimer for None
  date_update_running,\* self.date_update_running
  timers,             \* the threading.Timer objects created so far and their states
  cb                  \* position of the timer thread inside _update_date_text

vars ==
  << variant, hasYt, pc, interrupted, broadcast_id, stream_key, is_obs_configured,
     latch, connected, obsActive, obsDest, ytState, cfg, sb, sbRet, success,
     startRet, waitRet, sbResult, stopRet, log, evid, encoderStarted, hist,
     date_update_timer, date_update_running, timers, cb >>

conf == << variant, hasYt >>
overlay == << date_update_timer, date_update_running, timers, cb >>
fields == << broadcast_id, stream_key, is_obs_configured >>
encoder == << connected, obsActive, obsDest >>
results == << startRet, waitRet, sbResult, stopRet >>

TimerIds == 1..MaxTimers
NoTimer == 0

\* __init__: no timer, the refresh not running
OverlayIdle ==
  /\ date_update_timer = NoTimer
  /\ date_update_running = FALSE
  /\ timers = [t \in TimerIds |-> "unused"]
  /\ cb = "idle"

NoCfg == [act |-> FALSE, set |-> "-", res |-> CfgResult(FALSE, FALSE, << >>, Unread, Unread)]
NoSb ==
  [first |-> "-", i |-> 0, polls |-> 0, trans |-> 0, ans |-> "-", binds |-> 0,
   prompts |-> 0, rechecks |-> 0, live_seen |-> FALSE, qerr |-> FALSE, yes |-> FALSE]

Init ==
  /\ variant \in { "Integrated", "Service" }
  /\ hasYt \in BOOLEAN
  /\ pc = "m_start"
  /\ interrupted = FALSE
  /\ broadcast_id = NoId
  /\ stream_key = NoId
  /\ is_obs_configured = FALSE
  /\ latch = FALSE
  /\ connected = TRUE
  /\ obsActive \in BOOLEAN
  /\ obsDest \in Dests
  /\ ytState = "none"
  /\ cfg = NoCfg
  /\ sb = NoSb
  /\ sbRet = "st"
  /\ success = TRUE
  /\ startRet = "none"
  /\ waitRet = "none"
  /\ sbResult = "none"
  /\ stopRet = "none"
  /\ log = << >>
  /\ evid = FALSE
  /\ encoderStarted = FALSE
  /\ hist = << >>
  /\ OverlayIdle

\* ----------------------------------------------------------- environment

OnStreamStatus_AdoptsEncoder ==
  \E cat \in EventCats, payload \in EventPayloads :
    /\ latch' = OnStreamStatusLatch(latch, cat, payload)
    /\ evid' = (evid \/ (CategoryMatches(cat) /\ payload \in { "active_true", "state_started" }))
    /\ is_obs_configured' = (is_obs_configured \/ latch')
    /\ UNCHANGED << conf, overlay, pc, interrupted, broadcast_id, stream_key, encoder, ytState,
                    cfg, sb, sbRet, success, results, log, hist, encoderStarted >>

\* The listener thread: one event delivered to _on_stream_status.
OnStreamStatus ==
  \E cat \in EventCats, payload \in EventPayloads :
    /\ latch' = OnStreamStatusLatch(latch, cat, payload)
    /\ evid' = (evid \/ (CategoryMatches(cat) /\ payload \in { "active_true", "state_started" }))
    /\ UNCHANGED << conf, overlay, pc, interrupted, fields, encoder, ytState, cfg, sb, sbRet,
                    success, results, log, hist, encoderStarted >>

\* The encoder's output starts or stops on its own account (a StartStream or
\* StopStream taking effect late, the operator, a lost connection).
EncoderChanges ==
  /\ obsActive' = ~obsActive
  /\ UNCHANGED << conf, overlay, pc, interrupted, fields, latch, connected, obsDest, ytState,
                  cfg, sb, sbRet, success, results, log, evid, hist, encoderStarted >>

\* The platform advances the broadcast on its own (enableAutoStart /
\* enableAutoStop, media detection).
PlatformNext(s) ==
  CASE s = "ready" -> "testing"
    [] s = "testing" -> "live"
    [] s = "live" -> "complete"
    [] OTHER -> s

PlatformAdvances ==
  /\ ytState \in { "ready", "testing", "live" }
  /\ ytState' = PlatformNext(ytState)
  /\ UNCHANGED << conf, overlay, pc, interrupted, fields, latch, encoder, cfg, sb, sbRet,
                  success, results, log, evid, hist, encoderStarted >>

\* ---------------------------------------------- start_integrated_stream

\* start_integrated_stream returns r to main()
StartReturns(r, l) ==
  /\ startRet' = Bool(r)
  /\ pc' = "m_check"
  /\ log' = l \o << "ret.start." \o Bool(r) >>

MainCallsStart ==
  /\ pc = "m_start"
  /\ pc' = IF hasYt THEN "st_create_broadcast" ELSE "st_scene"
  /\ log' = log \o << "call.start" >>
  /\ evid' = FALSE
  /\ UNCHANGED << conf, overlay, interrupted, fields, latch, encoder, ytState, cfg, sb, sbRet,
                  success, results, hist, encoderStarted >>

AfterPlatformStep_IgnoreFailure(ok, nxt) == nxt

\* where start goes after create_broadcast, create_stream or bind answered ok:
\* on to nxt, or it returns False at once
AfterPlatformStep(ok, nxt) == IF ok THEN nxt ELSE "st_fail"

\* create_broadcast: the broadcast, or None when the insert raised
StCreateBroadcast ==
  /\ pc = "st_create_broadcast"
  /\ \E ok \in BOOLEAN :
       LET l == log \o << "yt.create_broadcast" >> \o (IF ok THEN << >> ELSE << "yt.failed" >>)
           nxt == AfterPlatformStep(ok, "st_create_stream") IN
       /\ broadcast_id' = IF ok THEN FreshId(broadcast_id) ELSE broadcast_id
       /\ ytState' = IF ok THEN "created" ELSE ytState
       /\ IF nxt = "st_fail"
            THEN StartReturns(FALSE, l)
            ELSE /\ pc' = nxt
                 /\ log' = l
                 /\ UNCHANGED startRet
  /\ UNCHANGED << conf, overlay, interrupted, stream_key, is_obs_configured, latch, encoder,
                  cfg, sb, sbRet, success, waitRet, sbResult, stopRet, evid, hist, encoderStarted >>

\* create_stream: (id, address, key); an error of the insert is raised into start
StCreateStream ==
  /\ pc = "st_create_stream"
  /\ \E out \in { "ok", "noid", "raise" } :
       LET ok == out = "ok"
           l == log \o << "yt.create_stream" >>
                    \o (IF out = "raise" THEN << >> ELSE << "print.key_full" >>)
                    \o (IF ok THEN << >> ELSE << "yt.failed" >>)
           nxt == AfterPlatformStep(ok, "st_bind") IN
       IF nxt = "st_fail"
         THEN StartReturns(FALSE, l)
         ELSE /\ pc' = nxt
              /\ log' = l
              /\ UNCHANGED startRet
  /\ UNCHANGED << conf, overlay, interrupted, fields, latch, encoder, ytState, cfg, sb, sbRet,
                  success, waitRet, sbResult, stopRet, evid, hist, encoderStarted >>

\* bind_broadcast_to_stream, then self.stream_key = stream_key
StBind ==
  /\ pc = "st_bind"
  /\ \E ok \in BOOLEAN :
       LET l == log \o << "yt.bind" >>
                    \o (IF ok THEN << "print.key_prefix" >> ELSE << "yt.failed" >>)
           nxt == AfterPlatformStep(ok, "st_configure") IN
       /\ ytState' = IF ok THEN "ready" ELSE ytState
       /\ IF nxt = "st_fail"
            THEN /\ StartReturns(FALSE, l)
                 /\ UNCHANGED stream_key
            ELSE /\ stream_key' = IntendedKey
                 /\ pc' = nxt
                 /\ log' = l
                 /\ UNCHANGED startRet
  /\ UNCHANGED << conf, overlay, interrupted, broadcast_id, is_obs_configured, latch, encoder,
                  cfg, sb, sbRet, success, waitRet, sbResult, stopRet, evid, hist, encoderStarted >>

AfterConfigure_IgnoreFailure(ok) == "st_scene"

\* where start goes after configure_obs_for_youtube returned ok
AfterConfigure(ok) == IF ok THEN "st_scene" ELSE "st_fail"

\* configure_obs_for_youtube(rtmp_url, self.stream_key), whole
StConfigure ==
  /\ pc = "st_configure"
  /\ \E p \in PollResps(connected, obsActive), set \in SetOutcomes, d1, d2 \in Dests :
     \E cur \in SettingsReads(obsDest), ver \in SettingsReads(d1), man \in SettingsReads(d2) :
       LET act == IsStreaming(p)
           r == Configure(variant, act, cur, set, ver, man)
           wrote == InSeq("obs.SetStreamServiceSettings", r.reqs)
           asked == InSeq("input", r.reqs)
           l == log \o << "call.configure" >> \o r.reqs \o << "ret.configure." \o Bool(r.ret) >>
       IN
       \* the write is applied or silently ignored; the operator may change the
       \* destination by hand only when asked to
       /\ d1 \in (IF wrote /\ set = "ok" THEN { IntendedDest, obsDest } ELSE { obsDest })
       /\ d2 \in (IF asked THEN Dests ELSE { d1 })
       /\ obsDest' = d2
       /\ cfg' = [act |-> act, set |-> set, res |-> r]
       /\ is_obs_configured' = (is_obs_configured \/ r.configured \/ r.ret)
       /\ IF AfterConfigure(r.ret) = "st_fail"
            THEN StartReturns(FALSE, l)
            ELSE /\ pc' = AfterConfigure(r.ret)
                 /\ log' = l
                 /\ UNCHANGED startRet
  /\ UNCHANGED << conf, overlay, interrupted, broadcast_id, stream_key, latch, connected,
                  obsActive, ytState, sb, sbRet, success, waitRet, sbResult, stopRet,
                  evid, hist, encoderStarted >>

\* switch_to_scene(scene_name) when a scene is given, then the overlay timer
StScene ==
  /\ pc = "st_scene"
  /\ \E ok \in BOOLEAN :
       IF ok
         THEN /\ pc' = "ss_poll1"
              /\ log' = log
              /\ UNCHANGED startRet
         ELSE StartReturns(FALSE, log)
  /\ cfg' = NoCfg
  /\ UNCHANGED << conf, overlay, interrupted, fields, latch, encoder, ytState, sb, sbRet,
                  success, waitRet, sbResult, stopRet, evid, hist, encoderStarted >>

AfterStartStreaming_IgnoresMode(ok, yt, bid) ==
  IF ~ok THEN "st_fail" ELSE "wf_poll1"

AfterStartStreaming_SkipWait(ok, yt, bid) ==
  IF ~ok THEN "st_fail"
  ELSE IF yt /\ bid # NoId THEN "sb_query" ELSE "st_ok"

\* where start goes after start_streaming returned ok: fail, wait for the
\* stream and promote (a platform controller and a broadcast), or succeed
AfterStartStreaming(ok, yt, bid) ==
  IF ~ok THEN "st_fail"
  ELSE IF yt /\ bid # NoId THEN "wf_poll1" ELSE "st_ok"

\* start_streaming returns r to start_integrated_stream
SsReturns(r, l0) ==
  LET l == l0 \o << "ret.start_streaming." \o Bool(r) >>
      nxt == AfterStartStreaming(r, hasYt, broadcast_id) IN
  IF nxt \in { "st_fail", "st_ok" }
    THEN StartReturns(nxt = "st_ok", l)
    ELSE /\ pc' = nxt
         /\ log' = l
         /\ UNCHANGED startRet

\* start_streaming: the first is_streaming()
SsPoll1 ==
  /\ pc = "ss_poll1"
  /\ \E p \in PollResps(connected, obsActive) :
       IF IsStreaming(p)
         THEN /\ latch' = TRUE
              /\ evid' = TRUE
              /\ SsReturns(TRUE, log \o << "call.start_streaming" >>)
         ELSE /\ pc' = "ss_send"
              /\ log' = log \o << "call.start_streaming" >>
              /\ UNCHANGED << latch, evid, startRet >>
  /\ UNCHANGED << conf, overlay, interrupted, fields, encoder, ytState, cfg, sb, sbRet,
                  success, waitRet, sbResult, stopRet, hist, encoderStarted >>

\* start_streaming: client.send("StartStream")
SsSend ==
  /\ pc = "ss_send"
  /\ \E out \in (IF connected THEN { "ok", "already_active", "error" } ELSE { "error" }) :
       CASE out = "ok" ->
              /\ obsActive' \in { TRUE, obsActive }
              /\ encoderStarted' = TRUE
              /\ pc' = "ss_poll2"
              /\ log' = log \o << "obs.StartStream" >>
              /\ UNCHANGED << latch, evid, startRet >>
         [] out = "already_active" ->
              /\ latch' = TRUE
              /\ evid' = TRUE
              /\ SsReturns(TRUE, log \o << "obs.StartStream" >>)
              /\ UNCHANGED << obsActive, encoderStarted >>
         [] OTHER ->
              /\ SsReturns(FALSE, log \o << "obs.StartStream" >>)
              /\ UNCHANGED << latch, evid, obsActive, encoderStarted >>
  /\ UNCHANGED << conf, overlay, interrupted, fields, connected, obsDest, ytState, cfg, sb, sbRet,
                  success, waitRet, sbResult, stopRet, hist >>

\* start_streaming: sleep, the second is_streaming(), return True
SsPoll2 ==
  /\ pc = "ss_poll2"
  /\ \E p \in PollResps(connected, obsActive) :
       /\ latch' = (latch \/ IsStreaming(p))
       /\ evid' = (evid \/ IsStreaming(p))
       /\ SsReturns(TRUE, log)
  /\ UNCHANGED << conf, overlay, interrupted, fields, encoder, ytState, cfg, sb, sbRet,
                  success, waitRet, sbResult, stopRet, hist, encoderStarted >>

\* ------------------------------------------------- wait_for_stream_start

AfterWait_AbortOnTimeout(r) == IF r THEN "sb_query" ELSE "st_fail"

\* where start goes after wait_for_stream_start returned r: a timeout is a
\* warning and promotion is attempted either way
AfterWait(r) == "sb_query"

WfReturns(r, l0) ==
  /\ waitRet' = Bool(r)
  /\ pc' = AfterWait(r)
  /\ log' = l0 \o << "ret.wait." \o Bool(r) >>

\* wait_for_stream_start: is_streaming() first
WfPoll1 ==
  /\ pc = "wf_poll1"
  /\ \E p \in PollResps(connected, obsActive) :
       IF IsStreaming(p)
         THEN /\ WfReturns(TRUE, log \o << "call.wait" >>)
              /\ evid' = TRUE
         ELSE /\ pc' = "wf_wait"
              /\ log' = log \o << "call.wait" >>
              /\ UNCHANGED << waitRet, evid >>
  /\ UNCHANGED << conf, overlay, interrupted, fields, latch, encoder, ytState, cfg, sb, sbRet,
                  success, startRet, sbResult, stopRet, hist, encoderStarted >>

\* streaming_event.wait(timeout) returns True: the latch is set
WfWaitSet ==
  /\ pc = "wf_wait"
  /\ latch
  /\ WfReturns(TRUE, log)
  /\ UNCHANGED << conf, overlay, interrupted, fields, latch, encoder, ytState, cfg, sb, sbRet,
                  success, startRet, sbResult, stopRet, evid, hist, encoderStarted >>

\* streaming_event.wait(timeout) returns False: the timeout elapsed, latch unset
WfWaitTimeout ==
  /\ pc = "wf_wait"
  /\ ~latch
  /\ pc' = "wf_poll2"
  /\ UNCHANGED << conf, overlay, interrupted, fields, latch, encoder, ytState, cfg, sb, sbRet,
                  success, results, log, evid, hist, encoderStarted >>

\* the fallback poll after the timeout
WfPoll2 ==
  /\ pc = "wf_poll2"
  /\ \E p \in PollResps(connected, obsActive) :
       /\ WfReturns(IsStreaming(p), log)
       /\ evid' = (evid \/ IsStreaming(p))
  /\ UNCHANGED << conf, overlay, interrupted, fields, latch, encoder, ytState, cfg, sb, sbRet,
                  success, startRet, sbResult, stopRet, hist, encoderStarted >>

\* ------------------------------------------------------ start_broadcast

\* get_broadcast_status: the platform's status, None (no item), or an error
StatusReads(s) == { s, "None", "error" }

AfterPromote_IgnoreFailure(ok) == "st_ok"

\* where start goes after start_broadcast returned ok
AfterPromote(ok) == IF ok THEN "st_ok" ELSE "st_fail"

\* start_broadcast returns r, its locals being s, to its caller
SbReturns(r, l0, s) ==
  LET l == l0 \o << "ret.start_broadcast." \o Bool(r) >> IN
  /\ sbResult' = Bool(r)
  /\ sb' = s
  /\ IF sbRet = "st"
       THEN /\ StartReturns(AfterPromote(r) = "st_ok", l)
            /\ UNCHANGED hist
       ELSE /\ pc' = "drv"
            /\ log' = l
            /\ hist' = Append(hist, [first |-> s.first, ret |-> r, trans |-> s.trans])
            /\ UNCHANGED startRet

PromoteFirst_NoShortCircuit(st) ==
  CASE st = "error" -> "ret_F"
    [] st \in { "ready", "testing" } -> "sb_poll"
    [] OTHER -> "sb_transition"

\* what start_broadcast does on the status its first query returned
PromoteFirst(st) ==
  CASE st = "error" -> "ret_F"
    [] st = "live" -> "ret_T"
    [] st \in { "ready", "testing" } -> "sb_poll"
    [] OTHER -> "sb_transition"

\* start_broadcast: current_status = get_broadcast_status(broadcast_id)
SbQuery ==
  /\ pc = "sb_query"
  /\ \E st \in StatusReads(ytState) :
       LET l == log \o << "call.start_broadcast" >>
           s == [NoSb EXCEPT !.first = st, !.live_seen = (st = "live"),
                             !.qerr = (st = "error")]
           d == PromoteFirst(st) IN
       IF d \in { "ret_T", "ret_F" }
         THEN SbReturns(d = "ret_T", l, s)
         ELSE /\ pc' = d
              /\ sb' = s
              /\ log' = l
              /\ UNCHANGED << sbResult, startRet, hist >>
  /\ UNCHANGED << conf, overlay, interrupted, fields, latch, encoder, ytState, cfg, sbRet,
                  success, waitRet, stopRet, evid, encoderStarted >>

\* where the polling loop goes after i polls without seeing live
AfterPoll(i) == IF i >= PromotePolls THEN "sb_rebind" ELSE "sb_poll"

\* for i in range(3): sleep(3); get_broadcast_status; live returns True
SbPoll ==
  /\ pc = "sb_poll"
  /\ \E st \in StatusReads(ytState) :
       CASE st = "error" ->
              SbReturns(FALSE, log, [sb EXCEPT !.polls = sb.polls + 1, !.qerr = TRUE])
         [] st = "live" ->
              SbReturns(TRUE, log, [sb EXCEPT !.polls = sb.polls + 1, !.live_seen = TRUE])
         [] OTHER ->
              /\ sb' = [sb EXCEPT !.i = sb.i + 1, !.polls = sb.polls + 1]
              /\ pc' = AfterPoll(sb.i + 1)
              /\ UNCHANGED << sbResult, startRet, log, hist >>
  /\ UNCHANGED << conf, overlay, interrupted, fields, latch, encoder, ytState, cfg, sbRet,
                  success, waitRet, stopRet, evid, encoderStarted >>

\* still ready/testing: bind_broadcast_to_stream again (errors swallowed)
SbRebind ==
  /\ pc = "sb_rebind"
  /\ \E ok \in BOOLEAN :
       /\ pc' = IF ok THEN "sb_rebind_check" ELSE "sb_transition"
       /\ sb' = [sb EXCEPT !.binds = sb.binds + 1]
       /\ log' = log \o << "yt.bind" >>
  /\ UNCHANGED << conf, overlay, interrupted, fields, latch, encoder, ytState, cfg, sbRet,
                  success, results, evid, hist, encoderStarted >>

\* sleep(5); get_broadcast_status; live returns True (errors swallowed)
SbRebindCheck ==
  /\ pc = "sb_rebind_check"
  /\ \E st \in StatusReads(ytState) :
       IF st = "live"
         THEN SbReturns(TRUE, log, [sb EXCEPT !.polls = sb.polls + 1, !.live_seen = TRUE])
         ELSE /\ pc' = "sb_transition"
              /\ sb' = [sb EXCEPT !.polls = sb.polls + 1,
                                  !.qerr = (sb.qerr \/ st = "error")]
              /\ UNCHANGED << sbResult, startRet, log, hist >>
  /\ UNCHANGED << conf, overlay, interrupted, fields, latch, encoder, ytState, cfg, sbRet,
                  success, waitRet, stopRet, evid, encoderStarted >>

\* what liveBroadcasts().transition(broadcastStatus="live") can answer
TransOutcomes(s) ==
  (IF s \in { "ready", "testing" } THEN { "ok_live", "ok_other" } ELSE { })
    \cup (IF s = "live" THEN { "redundant" } ELSE { "invalid" })
    \cup { "http_other", "exception" }

AfterTransition_RedundantFails(out) ==
  CASE out = "ok_live" -> "ret_T"
    [] out = "invalid" -> "sb_prompt"
    [] OTHER -> "ret_F"

AfterTransition_RetryOnError(out) ==
  CASE out = "ok_live" -> "ret_T"
    [] out = "ok_other" -> "ret_F"
    [] out = "redundant" -> "ret_T"
    [] out = "invalid" -> "sb_prompt"
    [] out = "http_other" -> "sb_transition"
    [] OTHER -> "ret_F"

\* what start_broadcast does on the answer to its transition request
AfterTransition(out) ==
  CASE out = "ok_live" -> "ret_T"
    [] out = "ok_other" -> "ret_F"
    [] out = "redundant" -> "ret_T"
    [] out = "invalid" -> "sb_prompt"
    [] OTHER -> "ret_F"

\* the explicit transition request
SbTransition ==
  /\ pc = "sb_transition"
  /\ \E out \in TransOutcomes(ytState) :
       LET l == log \o << "yt.transition_live" >>
           s == [sb EXCEPT !.trans = sb.trans + 1, !.ans = out]
           d == AfterTransition(out) IN
       /\ ytState' = CASE out = "ok_live" -> "live"
                       [] out = "ok_other" -> "testing"
                       [] OTHER -> ytState
       /\ IF d \in { "ret_T", "ret_F" }
            THEN SbReturns(d = "ret_T", l, s)
            ELSE /\ pc' = d
                 /\ sb' = s
                 /\ log' = l
                 /\ UNCHANGED << sbResult, startRet, hist >>
  /\ UNCHANGED << conf, overlay, interrupted, fields, latch, encoder, cfg, sbRet,
                  success, waitRet, stopRet, evid, encoderStarted >>

\* proceed.lower() == 'y'
SaysYes(ans) == ans \in { "y", "Y" }

\* invalidTransition: the operator is asked first
SbPrompt ==
  /\ pc = "sb_prompt"
  /\ \E ans \in { "y", "Y", "n" } :
       LET l == log \o << "input" >>
           s == [sb EXCEPT !.prompts = sb.prompts + 1, !.yes = SaysYes(ans)] IN
       IF SaysYes(ans)
         THEN SbReturns(TRUE, l, s)
         ELSE /\ pc' = "sb_final"
              /\ sb' = s
              /\ log' = l
              /\ UNCHANGED << sbResult, startRet, hist >>
  /\ UNCHANGED << conf, overlay, interrupted, fields, latch, encoder, ytState, cfg, sbRet,
                  success, waitRet, stopRet, evid, encoderStarted >>

\* sleep(10); final_status = get_broadcast_status; live returns True
SbFinal ==
  /\ pc = "sb_final"
  /\ \E st \in StatusReads(ytState) :
       SbReturns(st = "live", log,
                 [sb EXCEPT !.rechecks = sb.rechecks + 1, !.live_seen = (st = "live"),
                            !.qerr = (sb.qerr \/ st = "error")])
  /\ UNCHANGED << conf, overlay, interrupted, fields, latch, encoder, ytState, cfg, sbRet,
                  success, waitRet, stopRet, evid, encoderStarted >>

\* ------------------------------------------------ stop_integrated_stream

\* stop_integrated_stream returns r to main()
StopReturns(r, l) ==
  /\ stopRet' = Bool(r)
  /\ pc' = IF interrupted THEN "m_end" ELSE "m_after_stop"
  /\ log' = l \o << "ret.stop." \o Bool(r) >>

AfterStopStreaming_SkipOnFailure(ok, yt, bid) ==
  IF ok /\ yt /\ bid # NoId THEN "sp_end_broadcast" ELSE "sp_disconnect"

\* where stop goes after stop_streaming returned ok
AfterStopStreaming(ok, yt, bid) ==
  IF yt /\ bid # NoId THEN "sp_end_broadcast" ELSE "sp_disconnect"

\* stop_streaming: is_streaming(); not streaming clears the latch, returns True
XsPoll ==
  /\ pc = "xs_poll"
  /\ \E p \in PollResps(connected, obsActive) :
       IF IsStreaming(p)
         THEN /\ pc' = "xs_send"
              /\ log' = log \o << "call.stop_streaming" >>
              /\ UNCHANGED << latch, success >>
         ELSE /\ latch' = FALSE
              /\ pc' = AfterStopStreaming(TRUE, hasYt, broadcast_id)
              /\ log' = log \o << "call.stop_streaming" >>
                           \o (IF PollFailed(p) THEN << "obs.poll_failed" >> ELSE << >>)
                           \o << "ret.stop_streaming.T" >>
              /\ UNCHANGED success
  /\ UNCHANGED << conf, overlay, interrupted, fields, encoder, ytState, cfg, sb, sbRet,
                  results, evid, hist, encoderStarted >>

\* stop_streaming: client.send("StopStream")
XsSend ==
  /\ pc = "xs_send"
  /\ \E out \in (IF connected THEN { "ok", "not_active", "error" } ELSE { "error" }) :
       LET r == out \in { "ok", "not_active" } IN
       /\ obsActive' \in (IF out = "ok" THEN { FALSE, obsActive } ELSE { obsActive })
       /\ latch' = IF r THEN FALSE ELSE latch
       /\ success' = (success /\ r)
       /\ pc' = AfterStopStreaming(r, hasYt, broadcast_id)
       /\ log' = log \o << "obs.StopStream", "ret.stop_streaming." \o Bool(r) >>
  /\ UNCHANGED << conf, overlay, interrupted, fields, connected, obsDest, ytState, cfg, sb, sbRet,
                  results, evid, hist, encoderStarted >>

\* what liveBroadcasts().transition(broadcastStatus="complete") can answer
EndOutcomes(s) ==
  (IF s \in { "testing", "live" } THEN { "ok_complete", "ok_other" } ELSE { })
    \cup (IF s = "complete" THEN { "redundant" } ELSE { })
    \cup (IF s \in { "created", "ready" } THEN { "invalid" } ELSE { })
    \cup { "http_other" }

EndBroadcast_AlwaysTrue(out) == "T"

\* end_broadcast: True iff the response says complete; every error is raised
EndBroadcast(out) ==
  CASE out = "ok_complete" -> "T"
    [] out = "ok_other" -> "F"
    [] OTHER -> "raise"

\* end_broadcast(self.broadcast_id), called from stop_integrated_stream
SpEndBroadcast ==
  /\ pc = "sp_end_broadcast"
  /\ \E out \in EndOutcomes(ytState) :
       LET l == log \o << "call.end_broadcast", "yt.transition_complete",
                          "yt.answer." \o out >>
           r == EndBroadcast(out) IN
       /\ ytState' = IF out = "ok_complete" THEN "complete" ELSE ytState
       /\ IF r = "raise"
            THEN /\ StopReturns(FALSE, l)
                 /\ UNCHANGED success
            ELSE /\ success' = (success /\ r = "T")
                 /\ pc' = "sp_disconnect"
                 /\ log' = l \o << "ret.end_broadcast." \o r >>
                 /\ UNCHANGED stopRet
  /\ UNCHANGED << conf, overlay, interrupted, fields, latch, encoder, cfg, sb, sbRet,
                  startRet, waitRet, sbResult, evid, hist, encoderStarted >>

\* self.obs_connection is set: StreamService always, IntegratedLiveController
\* when it opened the connection itself (main() without --skip-youtube)
Disconnects(v, yt) == v = "Service" \/ yt

\* obs_connection.disconnect(); return success
SpDisconnect ==
  /\ pc = "sp_disconnect"
  /\ connected' = IF Disconnects(variant, hasYt) THEN FALSE ELSE connected
  /\ StopReturns(success, log)
  /\ UNCHANGED << conf, overlay, interrupted, fields, latch, obsActive, obsDest, ytState, cfg,
                  sb, sbRet, success, startRet, waitRet, sbResult, evid, hist, encoderStarted >>

\* ------------------------------------------------------------------ main()

\* if not result: sys.exit(1)  (SystemExit passes both except clauses)
AfterStart(r) == IF r = "T" THEN "m_input" ELSE "m_exit_fail"

MainCheck ==
  /\ pc = "m_check"
  /\ pc' = AfterStart(startRet)
  /\ UNCHANGED << conf, overlay, interrupted, fields, latch, encoder, ytState, cfg, sb, sbRet,
                  success, results, log, evid, hist, encoderStarted >>

\* input(...) returns, or is interrupted (caught around input): stop is called
MainInput ==
  /\ pc = "m_input"
  /\ pc' = "xs_poll"
  /\ success' = TRUE
  /\ log' = << "call.stop" >>
  /\ cfg' = NoCfg
  /\ sb' = NoSb
  /\ evid' = FALSE
  /\ UNCHANGED << conf, overlay, interrupted, fields, latch, encoder, ytState, sbRet,
                  results, hist, encoderStarted >>

MainAfterStop ==
  /\ pc = "m_after_stop"
  /\ pc' = "m_end"
  /\ UNCHANGED << conf, overlay, interrupted, fields, latch, encoder, ytState, cfg, sb, sbRet,
                  success, results, log, evid, hist, encoderStarted >>

StartPcs ==
  { "st_create_broadcast", "st_create_stream", "st_bind", "st_configure", "st_scene",
    "ss_poll1", "ss_send", "ss_poll2", "wf_poll1", "wf_wait", "wf_poll2",
    "sb_query", "sb_poll", "sb_transition", "sb_prompt", "sb_final" }

\* inside start_broadcast's try: ... except: pass around the re-bind
SwallowPcs == { "sb_rebind", "sb_rebind_check" }

StopPcs == { "xs_poll", "xs_send", "sp_end_broadcast", "sp_disconnect" }

\* KeyboardInterrupt swallowed by the bare except of start_broadcast
InterruptSwallowed ==
  /\ pc \in SwallowPcs
  /\ ~interrupted
  /\ pc' = "sb_transition"
  /\ UNCHANGED << conf, overlay, interrupted, fields, latch, encoder, ytState, cfg, sb, sbRet,
                  success, results, log, evid, hist, encoderStarted >>

\* KeyboardInterrupt reaching main(): controller.stop_integrated_stream()
InterruptMain ==
  /\ pc \in StartPcs \cup StopPcs \cup { "m_start", "m_check", "m_after_stop" }
  /\ ~interrupted
  /\ interrupted' = TRUE
  /\ pc' = "xs_poll"
  /\ success' = TRUE
  /\ log' = << "interrupt", "call.stop" >>
  /\ cfg' = NoCfg
  /\ sb' = NoSb
  /\ evid' = FALSE
  /\ UNCHANGED << conf, overlay, fields, latch, encoder, ytState, sbRet,
                  results, hist, encoderStarted >>

\* KeyboardInterrupt during the handler's stop: except: pass
InterruptHandler ==
  /\ pc \in StopPcs
  /\ interrupted
  /\ pc' = "m_end"
  /\ log' = log \o << "interrupt" >>
  /\ UNCHANGED << conf, overlay, interrupted, fields, latch, encoder, ytState, cfg, sb, sbRet,
                  success, results, evid, hist, encoderStarted >>

Next ==
  \/ OnStreamStatus
  \/ EncoderChanges
  \/ PlatformAdvances
  \/ MainCallsStart
  \/ StCreateBroadcast
  \/ StCreateStream
  \/ StBind
  \/ StConfigure
  \/ StScene
  \/ SsPoll1
  \/ SsSend
  \/ SsPoll2
  \/ WfPoll1
  \/ WfWaitSet
  \/ WfWaitTimeout
  \/ WfPoll2
  \/ SbQuery
  \/ SbPoll
  \/ SbRebind
  \/ SbRebindCheck
  \/ SbTransition
  \/ SbPrompt
  \/ SbFinal
  \/ XsPoll
  \/ XsSend
  \/ SpEndBroadcast
  \/ SpDisconnect
  \/ MainCheck
  \/ MainInput
  \/ MainAfterStop
  \/ InterruptSwallowed
  \/ InterruptMain
  \/ InterruptHandler

Spec == Init /\ [][Next]_vars

\* ------------------------------------- start_broadcast called repeatedly

\* A controller whose broadcast is created and bound; the caller invokes
\* start_broadcast on it up to MaxPromoteCalls times in succession.
InitPromote ==
  /\ variant = "Service"
  /\ hasYt = TRUE
  /\ pc = "drv"
  /\ interrupted = FALSE
  /\ broadcast_id = BroadcastId
  /\ stream_key = IntendedKey
  /\ is_obs_configured = TRUE
  /\ latch = FALSE
  /\ connected = TRUE
  /\ obsActive = TRUE
  /\ obsDest = IntendedDest
  /\ ytState \in { "created", "ready", "testing", "live", "complete" }
  /\ cfg = NoCfg
  /\ sb = NoSb
  /\ sbRet = "drv"
  /\ success = TRUE
  /\ startRet = "none"
  /\ waitRet = "none"
  /\ sbResult = "none"
  /\ stopRet = "none"
  /\ log = << >>
  /\ evid = FALSE
  /\ encoderStarted = TRUE
  /\ hist = << >>
  /\ OverlayIdle

DrvCall ==
  /\ pc = "drv"
  /\ Len(hist) < MaxPromoteCalls
  /\ pc' = "sb_query"
  /\ log' = << >>
  /\ UNCHANGED << conf, overlay, interrupted, fields, latch, encoder, ytState, cfg, sb, sbRet,
                  success, results, evid, hist, encoderStarted >>

NextPromote ==
  \/ DrvCall
  \/ PlatformAdvances
  \/ SbQuery
  \/ SbPoll
  \/ SbRebind
  \/ SbRebindCheck
  \/ SbTransition
  \/ SbPrompt
  \/ SbFinal

SpecPromote == InitPromote /\ [][NextPromote]_vars

\* ------------------------------------------------------------ properties

\* position of the first x in the log of the current invocation, 0 if none
Pos(x) ==
  IF InSeq(x, log) THEN CHOOSE i \in DOMAIN log : log[i] = x /\ \A j \in 1..(i - 1) : log[j] # x
  ELSE 0

PosWaitRet == IF Pos("ret.wait.T") > 0 THEN Pos("ret.wait.T") ELSE Pos("ret.wait.F")

Promoting == InSeq("call.start_broadcast", log)

\* how many times x occurs in q
Count(x, q) == Cardinality({ i \in DOMAIN q : q[i] = x })

\* the current stop_integrated_stream has returned
StopDone == log # << >> /\ log[Len(log)] \in { "ret.stop.T", "ret.stop.F" }

HasBroadcast == hasYt /\ broadcast_id # NoId

\* C1 as stated: start_broadcast is invoked only after wait_for_stream_start
\* returned true in that session.
C1_PromoteOnlyAfterConfirmed == Promoting => waitRet = "T"

\* C1 amended: start_broadcast is invoked only after start_streaming returned
\* success and wait_for_stream_start has returned, with either result.
C1_PromoteOnlyAfterWaitReturned ==
  Promoting =>
    /\ waitRet \in { "T", "F" }
    /\ 0 < Pos("ret.start_streaming.T")
    /\ Pos("ret.start_streaming.T") < PosWaitRet
    /\ PosWaitRet < Pos("call.start_broadcast")

\* start_broadcast is running although the wait returned false
C1_Witness == Promoting /\ waitRet = "F" /\ pc = "sb_transition"

\* C2: when start reaches promotion, configure returned success, then
\* start_streaming was called and returned, then wait_for_stream_start was
\* called and returned, then start_broadcast was called, in this order; any
\* StartStream request lies inside start_streaming.
C2_StartOrder ==
  Promoting =>
    /\ ~InSeq("ret.configure.F", log)
    /\ 0 < Pos("call.configure")
    /\ Pos("call.configure") < Pos("ret.configure.T")
    /\ Pos("ret.configure.T") < Pos("call.start_streaming")
    /\ Pos("call.start_streaming") < Pos("ret.start_streaming.T")
    /\ Pos("ret.start_streaming.T") < Pos("call.wait")
    /\ Pos("call.wait") < PosWaitRet
    /\ PosWaitRet < Pos("call.start_broadcast")
    /\ InSeq("obs.StartStream", log) =>
         /\ Pos("call.start_streaming") < Pos("obs.StartStream")
         /\ Pos("obs.StartStream") < Pos("ret.start_streaming.T")

\* promotion reached after a StartStream request was sent
C2_Witness == Promoting /\ InSeq("obs.StartStream", log) /\ sbResult = "T"

\* C3: a stop_integrated_stream that returned in a session with a remote
\* broadcast has called both stop_streaming and end_broadcast, whatever either
\* of them answered.
C3_BothTeardownsAttempted ==
  (StopDone /\ HasBroadcast) =>
    /\ InSeq("call.stop_streaming", log)
    /\ InSeq("call.end_broadcast", log)

\* stop_streaming failed and end_broadcast was still called
C3_Witness ==
  /\ StopDone /\ HasBroadcast
  /\ InSeq("ret.stop_streaming.F", log)
  /\ InSeq("call.end_broadcast", log)

\* C4: wait_for_stream_start returns true iff an activation event or a poll
\* indicated active output since the session's start, and false otherwise.
C4_WaitTrueIffEvidence ==
  [][waitRet' # waitRet => (waitRet' = "T" <=> evid')]_vars

\* C5: configure_obs_for_youtube queries the encoder's activity first and
\* sends no SetStreamServiceSettings when that query reported active.
C5_NoWriteWhileActive ==
  cfg.res.reqs # << >> =>
    /\ cfg.res.reqs[1] = "obs.GetStreamStatus"
    /\ cfg.act => ~InSeq("obs.SetStreamServiceSettings", cfg.res.reqs)

\* configure ran with the encoder reported active
C5_Witness == cfg.res.reqs # << >> /\ cfg.act /\ cfg.res.ret

CfgWrote == InSeq("obs.SetStreamServiceSettings", cfg.res.reqs)

\* C6: after a write, configure returns True only if the read-back equals the
\* requested server and key, and a read-back that differs yields False.
C6_AppliedOnlyIfReadBackMatches ==
  (CfgWrote /\ ~cfg.act) =>
    /\ cfg.res.ret => Matches(cfg.res.ver)
    /\ (cfg.res.ver.kind = "settings" /\ ~Matches(cfg.res.ver)) => ~cfg.res.ret

\* C7: a start_broadcast whose first status query reported live returns True
\* without a transition request; over two successive calls of which the first
\* succeeded and the second found the broadcast live, at most one transition
\* request was sent.
C7_PromoteIdempotent ==
  /\ \A k \in DOMAIN hist :
       hist[k].first = "live" => (hist[k].ret /\ hist[k].trans = 0)
  /\ \A k \in DOMAIN hist :
       (k > 1 /\ hist[k - 1].ret /\ hist[k].first = "live") =>
         (hist[k].ret /\ hist[k - 1].trans + hist[k].trans <= 1)

\* two calls: the first went live by its transition request, the second
\* found the broadcast live
C7_Witness ==
  /\ Len(hist) >= 2
  /\ hist[1].ret /\ hist[1].trans = 1
  /\ hist[2].first = "live" /\ hist[2].ret

\* C8: after "invalid transition" the state is re-checked before the operator
\* is asked: whenever the operator has been asked, the re-check was done
\* before, and one transition request was sent.
C8_RecheckBeforePrompt ==
  sb.prompts > 0 => (sb.rechecks > 0 /\ sb.trans = 1)

\* C9: when main() exits because start failed, a broadcast that was created
\* has been asked to complete and an encoder output that was started has been
\* asked to stop.
C9_FailedStartTornDown ==
  pc = "m_exit_fail" =>
    /\ broadcast_id # NoId => InSeq("yt.transition_complete", log)
    /\ encoderStarted => InSeq("obs.StopStream", log)

\* C10: in a stop, the broadcast is asked to complete before the encoder is
\* asked to stop.
C10_DemoteBeforeEncoderStop ==
  (HasBroadcast /\ InSeq("obs.StopStream", log)) =>
    /\ 0 < Pos("yt.transition_complete")
    /\ Pos("yt.transition_complete") < Pos("obs.StopStream")

\* C11: when the platform answers the Complete request with "redundant" (the
\* broadcast is complete already) and stop_streaming succeeded, stop does not
\* report a failure.
C11_RedundantDemoteIsSuccess ==
  (StopDone /\ InSeq("yt.answer.redundant", log) /\ InSeq("ret.stop_streaming.T", log))
    => log[Len(log)] = "ret.stop.T"

\* C12: a stop_integrated_stream that returned True in a session with a remote
\* broadcast had stop_streaming return True and had the platform answer the
\* Complete request with a complete broadcast.
C12_StopTrueOnlyIfBothSucceeded ==
  (StopDone /\ HasBroadcast /\ log[Len(log)] = "ret.stop.T") =>
    /\ InSeq("ret.stop_streaming.T", log)
    /\ ~InSeq("ret.stop_streaming.F", log)
    /\ InSeq("yt.answer.ok_complete", log)
    /\ InSeq("ret.end_broadcast.T", log)

\* stop returned True after a StopStream request and a completed broadcast
C12_Witness ==
  /\ StopDone /\ HasBroadcast
  /\ log[Len(log)] = "ret.stop.T"
  /\ InSeq("obs.StopStream", log)
  /\ ytState = "complete"

\* C13: a stop_integrated_stream that returned has sent exactly one StopStream
\* request, whatever the status poll and the demote answered; stated here for
\* the stops whose status poll failed or could not be read and that leave the
\* encoder pushing.
C13_ExactlyOneStopStream ==
  (StopDone /\ InSeq("obs.poll_failed", log) /\ obsActive) =>
    Count("obs.StopStream", log) = 1

\* --------------------------------------- the status monitor on its own

\* A StreamController whose listener is registered: events are delivered and
\* is_streaming() is called in any order, the encoder starts and stops, the
\* connection may be lost, and the flow that owns the controller clears the
\* latch as stop_streaming does.  hist holds the last call: its input and the
\* latch before and after.
InitMonitor ==
  /\ variant \in { "Integrated", "Service" }
  /\ hasYt = FALSE
  /\ pc = "mon"
  /\ interrupted = FALSE
  /\ broadcast_id = NoId
  /\ stream_key = NoId
  /\ is_obs_configured = FALSE
  /\ latch = FALSE
  /\ connected = TRUE
  /\ obsActive \in BOOLEAN
  /\ obsDest = IntendedDest
  /\ ytState = "none"
  /\ cfg = NoCfg
  /\ sb = NoSb
  /\ sbRet = "st"
  /\ success = TRUE
  /\ startRet = "none"
  /\ waitRet = "none"
  /\ sbResult = "none"
  /\ stopRet = "none"
  /\ log = << >>
  /\ evid = FALSE
  /\ encoderStarted = FALSE
  /\ hist = << >>
  /\ OverlayIdle

Observed(op, a, b, l0, l1) ==
  << [op |-> op, a |-> a, b |-> b, before |-> l0, after |-> l1] >>

\* one event delivered to _on_stream_status
MonEvent ==
  /\ \E cat \in EventCats, payload \in EventPayloads :
       /\ latch' = OnStreamStatusLatch(latch, cat, payload)
       /\ hist' = Observed("event", cat, payload, latch, latch')
  /\ UNCHANGED << conf, overlay, pc, interrupted, fields, encoder, ytState, cfg, sb, sbRet,
                  success, results, log, evid, encoderStarted >>

\* one call of is_streaming()
MonPoll ==
  /\ \E p \in PollResps(connected, obsActive) :
       hist' = Observed("poll", p, Bool(IsStreaming(p)), latch, latch)
  /\ UNCHANGED << conf, overlay, pc, interrupted, fields, latch, encoder, ytState, cfg, sb,
                  sbRet, success, results, log, evid, encoderStarted >>

\* streaming_event.clear() of stop_streaming
MonClear ==
  /\ latch
  /\ latch' = FALSE
  /\ hist' = Observed("clear", "-", "-", latch, FALSE)
  /\ UNCHANGED << conf, overlay, pc, interrupted, fields, encoder, ytState, cfg, sb, sbRet,
                  success, results, log, evid, encoderStarted >>

\* the connection to the encoder is lost: every later request raises
MonDisconnect ==
  /\ connected
  /\ connected' = FALSE
  /\ UNCHANGED << conf, overlay, pc, interrupted, fields, latch, obsActive, obsDest, ytState,
                  cfg, sb, sbRet, success, results, log, evid, hist, encoderStarted >>

NextMonitor ==
  \/ MonEvent
  \/ MonPoll
  \/ MonClear
  \/ MonDisconnect
  \/ EncoderChanges

SpecMonitor == InitMonitor /\ [][NextMonitor]_vars

\* C14: is_streaming() answers False only for a poll that succeeded and
\* reported inactive; a poll that failed or could not be read is answered
\* otherwise.
C14_InactiveOnlyWhenProved ==
  \A k \in DOMAIN hist :
    (hist[k].op = "poll" /\ hist[k].b = "F") => hist[k].a \in { "attr_false", "dict_false" }

\* C15: the listener sets the latch only on an event of an output-activation
\* category whose payload carries a boolean activity field that is true.
C15_LatchSetOnlyOnBooleanTrue ==
  \A k \in DOMAIN hist :
    (hist[k].op = "event" /\ ~hist[k].before /\ hist[k].after) =>
      (CategoryMatches(hist[k].a) /\ hist[k].b = "active_true")

\* C16: no event delivered to the listener unsets a latch that is set; the
\* latch is unset only by the explicit clear of the flow that owns it.
C16_EventsNeverUnsetLatch ==
  \A k \in DOMAIN hist :
    /\ (hist[k].op = "event" /\ hist[k].before) => hist[k].after
    /\ (hist[k].before /\ ~hist[k].after) => hist[k].op = "clear"

\* an output-deactivated event of a matching category arrived with the latch
\* set, and the latch is still set
C16_Witness ==
  /\ hist # << >>
  /\ hist[1].op = "event" /\ CategoryMatches(hist[1].a)
  /\ hist[1].b \in { "active_false", "state_stopped" }
  /\ hist[1].before /\ latch

\* C17: the latch is unset when start_streaming goes on to send StartStream,
\* and it is unset when stop_streaming returns to stop_integrated_stream.
C17_LatchResetAtStartAndStop ==
  [][ /\ (pc = "ss_poll1" /\ pc' = "ss_send") => ~latch'
      /\ (pc \in { "xs_poll", "xs_send" } /\ pc' \in { "sp_end_broadcast", "sp_disconnect" })
           => ~latch' ]_vars

\* C18: at most 3 status polls happen between the first status query of
\* start_broadcast and its transition request.
C18_AtMostThreePolls ==
  (sb.first \in { "ready", "testing" }) => sb.polls <= 3

\* a start_broadcast call has returned and sb holds its locals
SbDone == log # << >> /\ log[Len(log)] \in { "ret.start_broadcast.T", "ret.start_broadcast.F" }

\* C19: a start_broadcast whose transition request was answered "redundant
\* transition" returns True.
C19_RedundantTransitionIsSuccess ==
  (SbDone /\ sb.ans = "redundant") => log[Len(log)] = "ret.start_broadcast.T"

\* the broadcast went live between the status query and the transition
\* request, which was answered redundant
C19_Witness ==
  /\ SbDone /\ sb.ans = "redundant" /\ sb.trans = 1
  /\ sb.first # "live" /\ ytState = "live"

CfgSkipped == cfg.res.reqs # << >> /\ cfg.act

\* C21: with the encoder reported active, configure_obs_for_youtube returns
\* True (the skip is accepted) only if the destination the encoder is
\* configured with equals the intended server and key.
C21_SkipAcceptedOnlyIfDestinationMatches ==
  (CfgSkipped /\ cfg.res.ret) => obsDest = IntendedDest

\* C22: a destination conflict found while the encoder is active does not
\* abort start.
C22_ConflictWhileActiveContinues ==
  (CfgSkipped /\ InSeq("input", cfg.res.reqs)) => startRet # "F"

\* C23: when create_broadcast, create_stream or bind failed, start has
\* returned False at once: no step was repeated, configure_obs_for_youtube
\* was not called, nothing was written to the encoder, the encoder was not
\* started and start_broadcast was not called.
C23_PlatformFailureIsFatal ==
  InSeq("yt.failed", log) =>
    /\ log[Len(log)] = "ret.start.F" /\ log[Len(log) - 1] = "yt.failed"
    /\ startRet = "F"
    /\ Count("yt.create_broadcast", log) <= 1
    /\ Count("yt.create_stream", log) <= 1
    /\ Count("yt.bind", log) <= 1
    /\ ~InSeq("call.configure", log)
    /\ ~InSeq("obs.SetStreamServiceSettings", log)
    /\ ~InSeq("call.start_streaming", log)
    /\ ~InSeq("obs.StartStream", log)
    /\ ~InSeq("call.start_broadcast", log)

\* the bind failed after the broadcast and the stream were created
C23_Witness ==
  /\ InSeq("yt.failed", log) /\ InSeq("yt.bind", log)
  /\ broadcast_id # NoId /\ startRet = "F"

\* C24: when wait_for_stream_start returned False, start goes on to call
\* start_broadcast, and when the first status query of start_broadcast then
\* reports live, start returns True.
C24_WaitTimeoutIsWarningOnly ==
  InSeq("ret.wait.F", log) =>
    /\ pc = "sb_query" \/ Promoting
    /\ (Promoting /\ sb.first = "live") => startRet = "T"

\* no activity was seen in the session, the wait returned False, the platform
\* reported live and start returned True
C24_Witness ==
  /\ InSeq("ret.wait.F", log) /\ ~evid /\ ~latch
  /\ Promoting /\ sb.first = "live" /\ startRet = "T"

\* C25: whenever start_broadcast returned False, start returned False right
\* after it; so it is when the transition request was answered "invalid
\* transition", the operator did not confirm and the re-check did not report
\* live.
C25_FailedPromotionFailsStart ==
  sbResult = "F" =>
    /\ startRet = "F"
    /\ InSeq("ret.start_broadcast.F", log) =>
         /\ log[Len(log)] = "ret.start.F"
         /\ log[Len(log) - 1] = "ret.start_broadcast.F"

\* invalid transition, the operator declined, the re-check was not live:
\* start_broadcast and start returned False
C25_Witness ==
  /\ sbResult = "F" /\ startRet = "F"
  /\ sb.ans = "invalid" /\ sb.prompts = 1 /\ sb.rechecks = 1
  /\ ytState # "live"

\* C26: when the operator interrupted start_integrated_stream before it
\* returned, the stop that main() runs for it has asked a created broadcast
\* to complete and has asked a started encoder output to stop.
C26_CancelledStartIsTornDown ==
  (StopDone /\ interrupted /\ startRet = "none") =>
    /\ HasBroadcast => InSeq("yt.transition_complete", log)
    /\ encoderStarted => InSeq("obs.StopStream", log)

\* ----------------------------- start_integrated_stream called repeatedly

\* A caller that holds one controller with a platform controller and calls
\* start_integrated_stream again after it returned, without calling
\* stop_integrated_stream in between.  hist holds one record per earlier call.
\* The encoder is idle and set to the intended destination at first; the
\* listener delivers no event.
InitReentry ==
  /\ Init
  /\ variant = "Integrated" /\ hasYt
  /\ ~obsActive /\ obsDest = IntendedDest

CallerStartsAgain ==
  /\ pc = "m_check"
  /\ Len(hist) < MaxStartCalls - 1
  /\ hist' = Append(hist, [ret |-> startRet, bid |-> broadcast_id])
  /\ pc' = IF hasYt THEN "st_create_broadcast" ELSE "st_scene"
  /\ log' = << "call.start" >>
  /\ evid' = FALSE
  /\ cfg' = NoCfg
  /\ sb' = NoSb
  /\ startRet' = "none"
  /\ waitRet' = "none"
  /\ sbResult' = "none"
  /\ UNCHANGED << conf, overlay, interrupted, fields, latch, encoder, ytState, sbRet, success,
                  stopRet, encoderStarted >>

NextReentry ==
  \/ CallerStartsAgain
  \/ EncoderChanges
  \/ PlatformAdvances
  \/ MainCallsStart
  \/ StCreateBroadcast
  \/ StCreateStream
  \/ StBind
  \/ StConfigure
  \/ StScene
  \/ SsPoll1
  \/ SsSend
  \/ SsPoll2
  \/ WfPoll1
  \/ WfWaitSet
  \/ WfWaitTimeout
  \/ WfPoll2
  \/ SbQuery
  \/ SbPoll
  \/ SbRebind
  \/ SbRebindCheck
  \/ SbTransition
  \/ SbPrompt
  \/ SbFinal

SpecReentry == InitReentry /\ [][NextReentry]_vars

\* C27: a broadcast id held by the controller is not replaced by another one
\* as long as no stop_integrated_stream has returned: a second start creates
\* no second broadcast.
C27_BroadcastIdNotReassigned ==
  [][(broadcast_id # NoId /\ stopRet = "none") => broadcast_id' = broadcast_id]_vars

\* C28: a stop_integrated_stream invoked again after an earlier stop has
\* returned, and ending with the encoder idle and the broadcast complete
\* without any other platform error, returns True.
C28_StopRetrySucceedsOnceTornDown ==
  [][ ( /\ stopRet # "none"
        /\ pc \in StopPcs /\ pc' \notin StopPcs
        /\ log'[Len(log')] \in { "ret.stop.T", "ret.stop.F" }
        /\ ~InSeq("yt.answer.http_other", log') /\ ~InSeq("ret.stop_streaming.F", log')
        /\ HasBroadcast /\ ytState' = "complete" /\ ~obsActive' )
      => stopRet' = "T" ]_vars

\* C29: no message printed by start or configure shows the stream key in
\* full.
C29_KeyNeverPrintedInFull ==
  ~InSeq("print.key_full", log)

\* C30: a call of the listener callback _on_stream_status changes nothing but
\* the latch, which it can only set: the session fields, the encoder, the
\* platform and the record of requests sent are as they were.
C30_ListenerIsPureObservation ==
  [][ (pc' = pc /\ interrupted' = interrupted /\ (latch' # latch \/ (~evid /\ evid')))
        => /\ latch => latch'
           /\ UNCHANGED << conf, overlay, fields, encoder, ytState, cfg, sb, sbRet, success,
                           results, log, hist, encoderStarted >> ]_vars

\* the listener has set the latch on an activation event while a session with
\* a broadcast, a key and a configured encoder is being started
C30_Witness ==
  /\ latch /\ evid
  /\ broadcast_id # NoId /\ stream_key # NoId /\ is_obs_configured
  /\ startRet = "none" /\ stopRet = "none"

\* C31: while start_integrated_stream runs, the operator is asked for input
\* only by the invalid-transition fallback of start_broadcast; no other step
\* of start, endpoint configuration included, waits for the operator.
C31_OnlyPromoteFallbackAsksOperator ==
  (InSeq("call.start", log) /\ InSeq("input", log)) => sb.prompts > 0

\* C32: a component operation called by the orchestrator returns a value
\* whatever the collaborator answered: a stop_integrated_stream that called
\* end_broadcast got True or False back from it, never a raised error.
C32_EndBroadcastReturnsAValue ==
  (StopDone /\ InSeq("call.end_broadcast", log)) =>
    (InSeq("ret.end_broadcast.T", log) \/ InSeq("ret.end_broadcast.F", log))

\* C33: a stop_streaming invoked while the encoder is pushing its output
\* returns True only after a StopStream request was sent, a failed or
\* unreadable status poll included.
C33_StopStreamingTrueOnlyAfterStopStream ==
  [][ (pc = "xs_poll" /\ obsActive /\ InSeq("ret.stop_streaming.T", log'))
        => InSeq("obs.StopStream", log') ]_vars

\* C34: start_broadcast returns True exactly when a status query observed
\* live, the transition response said live, the transition was answered
\* redundant, or the operator answered yes; a call in which a status query
\* raised an error returns False.
C34_PromoteTrueOnlyInListedCases ==
  SbDone =>
    /\ (log[Len(log)] = "ret.start_broadcast.T")
          <=> (sb.live_seen \/ sb.ans \in { "ok_live", "redundant" } \/ sb.yes)
    /\ sb.qerr => log[Len(log)] = "ret.start_broadcast.F"

\* C35: the only state-changing request start_broadcast sends to the platform
\* is at most one transition request: it sends no bind request.
C35_PromoteSendsOnlyTheTransition ==
  /\ sb.trans <= 1
  /\ sb.binds = 0
  /\ ~InSeq("yt.bind", log)

\* ------------------------------ the status monitor with start_streaming

\* The StreamController of SpecMonitor, with its owner (a controller without
\* platform, whose start_integrated_stream goes straight to start_streaming)
\* calling start_streaming() any number of times while events arrive.
CallerStartsStreaming ==
  /\ pc = "mon"
  /\ pc' = "ss_poll1"
  /\ log' = << >>
  /\ evid' = FALSE
  /\ startRet' = "none"
  /\ UNCHANGED << conf, overlay, interrupted, fields, latch, encoder, ytState, cfg, sb, sbRet,
                  success, waitRet, sbResult, stopRet, hist, encoderStarted >>

\* start_streaming() has returned to its caller
CallerResumes ==
  /\ pc = "m_check"
  /\ pc' = "mon"
  /\ UNCHANGED << conf, overlay, interrupted, fields, latch, encoder, ytState, cfg, sb, sbRet,
                  success, results, log, evid, hist, encoderStarted >>

NextLatch ==
  \/ MonEvent
  \/ MonPoll
  \/ MonClear
  \/ MonDisconnect
  \/ EncoderChanges
  \/ CallerStartsStreaming
  \/ SsPoll1
  \/ SsSend
  \/ SsPoll2
  \/ CallerResumes

SpecLatch == InitMonitor /\ [][NextLatch]_vars

\* C36: the latch becomes set only by an event of an activation category
\* whose activity field is truthy, by a poll of start_streaming that found the
\* encoder active, or by a StartStream answered "already active";
\* start_streaming whose first poll reports active sets the latch and returns
\* without sending StartStream; a StartStream followed by a poll that reports
\* inactive leaves the latch as it was and start_streaming returns True.
C36_LatchSetOnlyOnPositiveEvidence ==
  [][ /\ (~latch /\ latch') =>
           \/ /\ pc' = pc
              /\ hist' # << >> /\ hist'[1].op = "event"
              /\ CategoryMatches(hist'[1].a)
              /\ hist'[1].b \in { "active_true", "active_nonbool", "state_started" }
           \/ /\ pc \in { "ss_poll1", "ss_poll2" }
              /\ obsActive /\ evid'
           \/ /\ pc = "ss_send"
              /\ log' = log \o << "obs.StartStream", "ret.start_streaming.T", "ret.start.T" >>
      /\ (pc = "ss_poll1" /\ evid') =>
           (latch' /\ pc' = "m_check" /\ startRet' = "T" /\ ~InSeq("obs.StartStream", log'))
      /\ (pc = "ss_poll1" /\ pc' = "ss_send") => ~evid'
      /\ (pc = "ss_poll2" /\ pc' = "m_check" /\ ~evid') =>
           (latch' = latch /\ startRet' = "T") ]_vars

\* start_streaming sent StartStream, its second poll reported inactive, it
\* returned True and the latch is unset
C36_Witness ==
  /\ pc = "m_check" /\ startRet = "T"
  /\ InSeq("obs.StartStream", log) /\ encoderStarted
  /\ ~evid /\ ~latch

\* the encoder requests among the entries of q, in order
EncoderRequests(q) ==
  SelectSeq(q, LAMBDA x : x \in { "obs.GetStreamStatus", "obs.GetStreamServiceSettings",
                                  "obs.SetStreamServiceSettings" })

\* C37: StreamService and IntegratedLiveController are equivalent: whenever
\* StreamService.configure_obs_for_youtube has run, the encoder requests it
\* sent and its result are those IntegratedLiveController's sends and returns
\* on the same activity poll and write answer, for some answers to its reads.
C37_VariantsEquivalent ==
  (variant = "Service" /\ cfg.res.reqs # << >>) =>
    \E d0, d1, d2 \in Dests :
      \E cur \in SettingsReads(d0), ver \in SettingsReads(d1), man \in SettingsReads(d2) :
        LET r == ConfigureIntegrated(cfg.act, cur, cfg.set, ver, man) IN
        /\ EncoderRequests(r.reqs) = EncoderRequests(cfg.res.reqs)
        /\ r.ret = cfg.res.ret

\* the current start_integrated_stream has returned
StartDone == log # << >> /\ log[Len(log)] \in { "ret.start.T", "ret.start.F" }

\* what start and stop record of the platform, of endpoint configuration and
\* of wait_for_stream_start
PlatformAndWaitEntries ==
  { "yt.create_broadcast", "yt.create_stream", "yt.bind", "yt.transition_live",
    "yt.transition_complete", "call.start_broadcast", "call.end_broadcast",
    "call.configure", "obs.SetStreamServiceSettings", "call.wait" }

\* C38: without a platform controller, start sends no platform request, does
\* not write the encoder's destination and does not call
\* wait_for_stream_start; it returns True iff start_streaming was reached and
\* returned True; the stop that follows sends no Complete request and returns
\* what stop_streaming returned.
C38_SkipYoutubeMode ==
  ~hasYt =>
    /\ \A i \in DOMAIN log : log[i] \notin PlatformAndWaitEntries
    /\ ytState = "none" /\ broadcast_id = NoId /\ ~is_obs_configured
    /\ StartDone => (log[Len(log)] = "ret.start.T" <=> InSeq("ret.start_streaming.T", log))
    /\ StopDone => (log[Len(log)] = "ret.stop.T" <=> InSeq("ret.stop_streaming.T", log))

\* without a platform controller, start succeeded by a StartStream request
\* and the stop after it succeeded by a StopStream request
C38_Witness ==
  /\ ~hasYt /\ startRet = "T" /\ encoderStarted
  /\ StopDone /\ stopRet = "T" /\ InSeq("obs.StopStream", log)

\* ------------------------------------------- the overlay refresh timer

\* _start_date_text_updater, _update_date_text and _stop_date_text_updater on
\* their own: the main thread starts the refresh, lets it run and stops it;
\* each Timer that fires runs _update_date_text in a thread of its own, step
\* by step, interleaved with the main thread.  A Timer is "created" (made, not
\* started), "armed" (started, waiting), "fired" (its callback was called) or
\* "cancelled".
session ==
  << interrupted, fields, latch, encoder, ytState, cfg, sb, sbRet, success, results,
     log, evid, hist, encoderStarted >>

InitTimer ==
  /\ variant \in { "Integrated", "Service" }
  /\ hasYt = TRUE
  /\ pc = "dt_start"
  /\ interrupted = FALSE
  /\ broadcast_id = NoId
  /\ stream_key = NoId
  /\ is_obs_configured = FALSE
  /\ latch = FALSE
  /\ connected = TRUE
  /\ obsActive = FALSE
  /\ obsDest = IntendedDest
  /\ ytState = "none"
  /\ cfg = NoCfg
  /\ sb = NoSb
  /\ sbRet = "st"
  /\ success = TRUE
  /\ startRet = "none"
  /\ waitRet = "none"
  /\ sbResult = "none"
  /\ stopRet = "none"
  /\ log = << >>
  /\ evid = FALSE
  /\ encoderStarted = FALSE
  /\ hist = << >>
  /\ OverlayIdle

\* threading.Timer(...): the next object not made yet
HasFreshTimer == \E t \in TimerIds : timers[t] = "unused"
FreshTimer == CHOOSE t \in TimerIds : timers[t] = "unused" /\ \A u \in 1..(t - 1) : timers[u] # "unused"

\* Timer.start(): a timer cancelled before it was started never calls back
Started(st) == IF st = "created" THEN "armed" ELSE st

\* Timer.cancel(): no effect on a timer whose callback was already called
Cancelled(st) == IF st \in { "created", "armed" } THEN "cancelled" ELSE st

\* _start_date_text_updater, called by start: make and start the timer when
\* there is none
DtStart ==
  /\ pc = "dt_start"
  /\ IF date_update_timer = NoTimer
       THEN /\ HasFreshTimer
            /\ date_update_timer' = FreshTimer
            /\ timers' = [timers EXCEPT ![FreshTimer] = "armed"]
            /\ pc' = "dt_start_flag"
       ELSE /\ pc' = "dt_live"
            /\ UNCHANGED << date_update_timer, timers >>
  /\ UNCHANGED << conf, session, date_update_running, cb >>

\* self.date_update_running = True
DtStartFlag ==
  /\ pc = "dt_start_flag"
  /\ date_update_running' = TRUE
  /\ pc' = "dt_live"
  /\ UNCHANGED << conf, session, date_update_timer, timers, cb >>

\* _stop_date_text_updater, called by stop: if self.date_update_timer
DtStopTest ==
  /\ pc = "dt_live"
  /\ pc' = IF date_update_timer # NoTimer THEN "dt_stop_cancel" ELSE "dt_stopped"
  /\ UNCHANGED << conf, session, overlay >>

\* self.date_update_timer.cancel()
DtStopCancel ==
  /\ pc = "dt_stop_cancel"
  /\ timers' = [timers EXCEPT ![date_update_timer] = Cancelled(@)]
  /\ pc' = "dt_stop_clear"
  /\ UNCHANGED << conf, session, date_update_timer, date_update_running, cb >>

\* self.date_update_timer = None
DtStopClear ==
  /\ pc = "dt_stop_clear"
  /\ date_update_timer' = NoTimer
  /\ pc' = "dt_stop_flag"
  /\ UNCHANGED << conf, session, date_update_running, timers, cb >>

\* self.date_update_running = False; _stop_date_text_updater returns
DtStopFlag ==
  /\ pc = "dt_stop_flag"
  /\ date_update_running' = FALSE
  /\ pc' = "dt_stopped"
  /\ UNCHANGED << conf, session, date_update_timer, timers, cb >>

\* the interval of an armed timer elapses: _update_date_text is called
TimerFires ==
  /\ cb = "idle"
  /\ \E t \in TimerIds :
       /\ timers[t] = "armed"
       /\ timers' = [timers EXCEPT ![t] = "fired"]
  /\ cb' = "cb_update"
  /\ UNCHANGED << conf, pc, session, date_update_timer, date_update_running >>

\* scene_manager.update_text_source(...): returns, whatever the encoder answers
CbUpdate ==
  /\ cb = "cb_update"
  /\ cb' = "cb_check"
  /\ UNCHANGED << conf, pc, session, date_update_timer, date_update_running, timers >>

\* if self.date_update_running
CbCheck ==
  /\ cb = "cb_check"
  /\ cb' = IF date_update_running THEN "cb_assign" ELSE "idle"
  /\ UNCHANGED << conf, pc, session, date_update_timer, date_update_running, timers >>

\* self.date_update_timer = threading.Timer(...)
CbAssign ==
  /\ cb = "cb_assign"
  /\ HasFreshTimer
  /\ date_update_timer' = FreshTimer
  /\ timers' = [timers EXCEPT ![FreshTimer] = "created"]
  /\ cb' = "cb_start"
  /\ UNCHANGED << conf, pc, session, date_update_running >>

\* self.date_update_timer.daemon = True; self.date_update_timer.start(): the
\* attribute is read again, and None raises AttributeError inside the try
CbStart ==
  /\ cb = "cb_start"
  /\ IF date_update_timer = NoTimer
       THEN /\ cb' = "cb_except"
            /\ UNCHANGED timers
       ELSE /\ timers' = [timers EXCEPT ![date_update_timer] = Started(@)]
            /\ cb' = "idle"
  /\ UNCHANGED << conf, pc, session, date_update_timer, date_update_running >>

\* the except clause of _update_date_text: IntegratedLiveController calls
\* _start_date_text_updater (a new timer when there is none); StreamService
\* makes and starts a new timer when date_update_running is set
ExceptRearms(v, timer, running) ==
  IF v = "Integrated" THEN timer = NoTimer ELSE running

CbExcept ==
  /\ cb = "cb_except"
  /\ IF ExceptRearms(variant, date_update_timer, date_update_running)
       THEN /\ HasFreshTimer
            /\ date_update_timer' = FreshTimer
            /\ timers' = [timers EXCEPT ![FreshTimer] = "armed"]
            /\ cb' = IF variant = "Integrated" THEN "cb_except_flag" ELSE "idle"
       ELSE /\ cb' = "idle"
            /\ UNCHANGED << date_update_timer, timers >>
  /\ UNCHANGED << conf, pc, session, date_update_running >>

\* self.date_update_running = True of the _start_date_text_updater called
\* from the except clause
CbExceptFlag ==
  /\ cb = "cb_except_flag"
  /\ date_update_running' = TRUE
  /\ cb' = "idle"
  /\ UNCHANGED << conf, pc, session, date_update_timer, timers >>

NextTimer ==
  \/ DtStart
  \/ DtStartFlag
  \/ DtStopTest
  \/ DtStopCancel
  \/ DtStopClear
  \/ DtStopFlag
  \/ TimerFires
  \/ CbUpdate
  \/ CbCheck
  \/ CbAssign
  \/ CbStart
  \/ CbExcept
  \/ CbExceptFlag

SpecTimer == InitTimer /\ [][NextTimer]_vars

ArmedTimers == { t \in TimerIds : timers[t] = "armed" }

\* C39: once _stop_date_text_updater has returned, no refresh timer is armed
\* and the callback in flight arms none; at most one refresh timer is armed at
\* any time.
C39_NoTimerArmedAfterStop ==
  /\ Cardinality(ArmedTimers) <= 1
  /\ (pc = "dt_stopped" /\ cb = "idle") => ArmedTimers = { }
====
